---- MODULE Spec2Model ----
(***************************************************************************)
(* tidy: a terminal file browser with a tag screen.                        *)
(*                                                                         *)
(* src/main.rs holds the start-up persistence step and a main loop that    *)
(* handles the cursor keys inline.  src/ctx.rs holds the two screens       *)
(* (MainContext, TaggingContext) written against crate::{Signal, Msg,      *)
(* DirInfo} and a driver that applies the signals; those declarations and  *)
(* that driver are not in src/, so they are modelled from spec.md (3, 4.2,  *)
(* 4.3).  The variable prog says which of the two loops a behaviour runs.  *)
(***************************************************************************)
EXTENDS Integers, Sequences, FiniteSets, TLC

\* ------------------------------------------------------------------ bounds
MaxFiles == 3
MaxDirs == 2
MaxRuns == 2
\* The longest run of keys the trail records: a full cycle and one more key.
MaxTrail == MaxFiles + 1

\* usize::MAX.  The width depends on the target (64 bits on the usual ones);
\* it is modelled at 16 bits, the least Rust allows, to stay inside TLC's
\* integers.  All that matters below is that it exceeds every listing length.
UsizeMax == 65535

\* ------------------------------------------------------------------ values
None == <<>>
Some(x) == <<x>>

Names == 1..MaxFiles
Dirs == 1..MaxDirs
\* The canonical path of entry n of directory d.
CanonPath(d, n) == <<d, n>>

\* crossterm key codes the handlers distinguish; "x" stands for every key
\* that no screen binds.
Keys == {"q", "Up", "k", "Down", "j", "t", "x"}
\* Event::Mouse and Event::Resize
OtherEvents == {"Mouse", "Resize"}

MainId == "MainContext"
TaggingId == "TaggingContext"

VARIABLES
    prog,              \* "main": the loop of src/main.rs; "ctx": the context driver
    overflow_checks,   \* the build checks integer overflow (debug) or wraps (release)
    path,              \* State.path / DirInfo.path: the directory shown
    disk,              \* the file system: directory -> set of entry names
    files,             \* the frame's listing (let files = state.files())
    pc,                \* "top" | "draw" | "input" | "quit" | "panic" | "startup" | "exit"
    state_sel,         \* State.file_list_state.selected()      (src/main.rs)
    main_sel,          \* MainContext.file_list_state.selected() (src/ctx.rs)
    file_path,         \* TaggingContext.file_path
    tag_input,         \* TaggingContext.tag_input
    active,            \* the registry's active identity
    ev,                \* history: the last input event, the context that got it, the
                       \* selection and listing length before it, the signal returned
    delivered,         \* history: the path of the last Msg::File handed to TaggingContext.send
    trail,             \* history: the keys handled since the trail was last reset
    dirs_tbl,          \* tidy.db, table dirs: set of [id, path]
    files_tbl,         \* tidy.db, table files: set of [id, path, path_id]
    runs,              \* history: the directory and listing each start-up saw
    frame,             \* history: the listings this iteration's info panel and
                       \* cursor arithmetic read (None: not read); the rows' is files
    probe              \* three signals and what the driver did with their two
                       \* groupings (SpecSignal only)

vars == <<prog, overflow_checks, path, disk, files, pc, state_sel, main_sel,
          file_path, tag_input, active, ev, delivered, trail, dirs_tbl,
          files_tbl, runs, frame, probe>>

loopVars == <<prog, overflow_checks, path, files, pc, state_sel, main_sel,
              file_path, tag_input, active, ev, delivered>>
\* What no loop writes: tidy.db and the signal probe.
dbVars == <<dirs_tbl, files_tbl, runs, probe>>

\* ------------------------------------------------------- directory listing
RECURSIVE SortedSeq(_)
SortedSeq(S) ==
    IF S = {} THEN <<>>
    ELSE LET m == CHOOSE x \in S : \A y \in S : x <= y
         IN <<m>> \o SortedSeq(S \ {m})

\* State::files: the canonical paths of the directory's entries, in the
\* directory's order (taken here as the order of the names).
Listing(d) ==
    LET names == SortedSeq(disk[d])
    IN [i \in 1..Len(names) |-> CanonPath(d, names[i])]

\* fs::metadata(file) succeeds: the entry is still in its directory.
Exists(p) == p[2] \in disk[p[1]]

\* ------------------------------------------------------------- key mapping
\* The key table with a catch-all arm that moves the cursor.
KeyCommand_otherDown(k) ==
    CASE k = "q" -> "Quit"
      [] k \in {"Up", "k"} -> "CursorUp"
      [] k = "t" -> "Tag"
      [] OTHER -> "CursorDown"

\* State::handle_key (src/main.rs) and the first match of
\* MainContext::handle_key (src/ctx.rs): the same table.
KeyCommand(k) ==
    CASE k = "q" -> "Quit"
      [] k \in {"Up", "k"} -> "CursorUp"
      [] k \in {"j", "Down"} -> "CursorDown"
      [] k = "t" -> "Tag"
      [] OTHER -> "None"

\* ----------------------------------------------------------------- cursor
\* usize subtraction in a build that wraps.
USub(a, b) == (a - b) % (UsizeMax + 1)

\* CursorUp with the boundary test off by one (selected > 1).
CursorUp_offByOne(s, len, oc) ==
    IF s = None THEN [panic |-> FALSE, sel |-> s]
    ELSE IF s[1] > 1 THEN [panic |-> FALSE, sel |-> Some(s[1] - 1)]
    ELSE IF len = 0 /\ oc THEN [panic |-> TRUE, sel |-> s]
    ELSE [panic |-> FALSE, sel |-> Some(USub(len, 1))]

\* Command::CursorUp: [panic, sel] from the selection, the listing length
\* and whether the build checks overflow.  len - 1 is evaluated only in the
\* else branch.
CursorUp(s, len, oc) ==
    IF s = None THEN [panic |-> FALSE, sel |-> s]
    ELSE IF s[1] > 0 THEN [panic |-> FALSE, sel |-> Some(s[1] - 1)]
    ELSE IF len = 0 /\ oc THEN [panic |-> TRUE, sel |-> s]
    ELSE [panic |-> FALSE, sel |-> Some(USub(len, 1))]

\* CursorDown with > for >=: the last row steps past the end.
CursorDown_noWrap(s, len, oc) ==
    IF s = None THEN [panic |-> FALSE, sel |-> s]
    ELSE IF len = 0 /\ oc THEN [panic |-> TRUE, sel |-> s]
    ELSE IF s[1] > USub(len, 1) THEN [panic |-> FALSE, sel |-> Some(0)]
    ELSE [panic |-> FALSE, sel |-> Some(s[1] + 1)]

\* Command::CursorDown: len - 1 is evaluated in the condition, whenever an
\* index is selected.
CursorDown(s, len, oc) ==
    IF s = None THEN [panic |-> FALSE, sel |-> s]
    ELSE IF len = 0 /\ oc THEN [panic |-> TRUE, sel |-> s]
    ELSE IF s[1] >= USub(len, 1) THEN [panic |-> FALSE, sel |-> Some(0)]
    ELSE [panic |-> FALSE, sel |-> Some(s[1] + 1)]

\* ----------------------------------------------------------------- signals
\* crate::Signal and crate::Msg as src/ctx.rs uses them.
Quit == <<"Quit">>
Change(id) == <<"Change", id>>
Message(id, msg) == <<"Message", id, msg>>
MsgFile(p) == <<"File", p>>
\* Signal::and: the composite of two signals.
And(a, b) == <<"And", a, b>>

\* Decompose as a binary tree read right to left.
RECURSIVE Decompose_rightFirst(_)
Decompose_rightFirst(s) ==
    IF s[1] = "And" THEN Decompose_rightFirst(s[3]) \o Decompose_rightFirst(s[2])
    ELSE <<s>>

\* The ordered primitive components of a signal.
RECURSIVE Decompose(_)
Decompose(s) ==
    IF s[1] = "And" THEN Decompose(s[2]) \o Decompose(s[3]) ELSE <<s>>

\* The primitives an Option<Signal> stands for (none for None).
Primitives(ret) == IF ret = None THEN <<>> ELSE Decompose(ret[1])

\* ---------------------------------------------------------------- contexts
\* The Tag arm sending the first entry instead of the selected one.
TagArm_first(s, fs) ==
    IF s = None \/ s[1] >= Len(fs)
    THEN [panic |-> TRUE, sel |-> s, ret |-> None]
    ELSE [panic |-> FALSE, sel |-> s,
          ret |-> Some(And(Change(TaggingId),
                           Message(TaggingId, MsgFile(fs[1]))))]

\* The Tag arm sending the message twice.
TagArm_twice(s, fs) ==
    IF s = None \/ s[1] >= Len(fs)
    THEN [panic |-> TRUE, sel |-> s, ret |-> None]
    ELSE [panic |-> FALSE, sel |-> s,
          ret |-> Some(And(And(Change(TaggingId),
                               Message(TaggingId, MsgFile(fs[s[1] + 1]))),
                           Message(TaggingId, MsgFile(fs[s[1] + 1]))))]

\* The Tag arm clearing the selection as it leaves the list.
TagArm_reset(s, fs) ==
    IF s = None \/ s[1] >= Len(fs)
    THEN [panic |-> TRUE, sel |-> s, ret |-> None]
    ELSE [panic |-> FALSE, sel |-> None,
          ret |-> Some(And(Change(TaggingId),
                           Message(TaggingId, MsgFile(fs[s[1] + 1]))))]

\* The Tag arm of MainContext::handle_key: it unwraps the selection and
\* indexes the listing (either may panic), then returns the composite of
\* Change(TaggingContext) and Message(TaggingContext, Msg::File(path)).
TagArm(s, fs) ==
    IF s = None \/ s[1] >= Len(fs)
    THEN [panic |-> TRUE, sel |-> s, ret |-> None]
    ELSE [panic |-> FALSE, sel |-> s,
          ret |-> Some(And(Change(TaggingId),
                           Message(TaggingId, MsgFile(fs[s[1] + 1]))))]

\* MainContext::handle_key: [panic, sel, ret].
MainHandleKey(k, s, fs, oc) ==
    LET cmd == KeyCommand(k) IN
    CASE cmd = "CursorUp" ->
           LET r == CursorUp(s, Len(fs), oc)
           IN [panic |-> r.panic, sel |-> r.sel, ret |-> None]
      [] cmd = "CursorDown" ->
           LET r == CursorDown(s, Len(fs), oc)
           IN [panic |-> r.panic, sel |-> r.sel, ret |-> None]
      [] cmd = "None" -> [panic |-> FALSE, sel |-> s, ret |-> None]
      [] cmd = "Tag" -> TagArm(s, fs)
      [] cmd = "Quit" -> [panic |-> FALSE, sel |-> s, ret |-> Some(Quit)]

\* MainContext::render fails: fs::metadata(file).unwrap() on an entry that is
\* gone, or state.files[selected] out of range.  It writes no field but the
\* list widget's scroll offset, which is not modelled.
MainRenderPanics(s, fs) ==
    \/ \E i \in 1..Len(fs) : ~Exists(fs[i])
    \/ s # None /\ s[1] >= Len(fs)

\* MainContext::send: ignores the message.
MainSend(msg, s) == s

\* TaggingContext::handle_key quitting on q, as the list screen does.
TagHandleKey_quit(k) == IF k = "q" THEN Some(Quit) ELSE None

\* TaggingContext::handle_key naming its own identity.
TagHandleKey_stay(k) == IF k = "q" THEN Some(Change(TaggingId)) ELSE None

\* TaggingContext::handle_key naming a screen nobody registered.
TagHandleKey_unregistered(k) == IF k = "q" THEN Some(Change("HelpContext")) ELSE None

\* TaggingContext::handle_key: the signal returned; no field is written.
TagHandleKey(k) == IF k = "q" THEN Some(Change(MainId)) ELSE None

\* TaggingContext::render unwrapping file_path to show it.
TagRenderPanics_unwrap(fp) == fp = None

\* TaggingContext::render formats file_path with {:?}: it cannot fail and
\* writes no field.
TagRenderPanics(fp) == FALSE

\* TaggingContext::send dropping the message, as MainContext::send does.
TagSend_drop(msg, fp) == fp

\* TaggingContext::send
TagSend(msg, fp) == IF msg[1] = "File" THEN Some(msg[2]) ELSE fp

\* ---------------------------------------------------------------- registry
\* The identities registered at start-up.
Registered == {MainId, TaggingId}

\* The driver applies one primitive to st = [active, main_sel, file_path,
\* delivered, quit, fatal]: Quit ends the loop, Change is switch_to,
\* Message is deliver (ContextNotFound, fatal, for an unregistered identity).
ApplySignal(st, p) ==
    CASE p[1] = "Quit" -> [st EXCEPT !.quit = TRUE]
      [] p[1] = "Change" -> [st EXCEPT !.active = p[2]]
      [] p[1] = "Message" ->
           IF p[2] = TaggingId
           THEN [st EXCEPT !.file_path = TagSend(p[3], st.file_path),
                           !.delivered = IF p[3][1] = "File" THEN Some(p[3][2])
                                         ELSE st.delivered]
           ELSE IF p[2] = MainId
           THEN [st EXCEPT !.main_sel = MainSend(p[3], st.main_sel)]
           ELSE [st EXCEPT !.fatal = TRUE]

\* The primitives applied in order; nothing is applied after Quit or after
\* a fatal error.  st.log lists the primitives applied.
RECURSIVE ApplyAll(_, _)
ApplyAll(st, ps) ==
    IF ps = <<>> \/ st.quit \/ st.fatal THEN st
    ELSE ApplyAll([ApplySignal(st, Head(ps)) EXCEPT !.log = Append(st.log, Head(ps))],
                  Tail(ps))

\* ------------------------------------------------------------ history store
\* The rowid SQLite gives a new row of an INTEGER PRIMARY KEY table.
NextId(tbl) ==
    IF tbl = {} THEN 1
    ELSE 1 + (CHOOSE m \in {r.id : r \in tbl} : \A r \in tbl : r.id <= m)

\* INSERT OR IGNORE INTO dirs (path) VALUES (?): dirs.path is UNIQUE, so a
\* second row with the path is ignored.
InsertOrIgnoreDir(tbl, p) ==
    IF \E r \in tbl : r.path = p THEN tbl
    ELSE tbl \cup {[id |-> NextId(tbl), path |-> p]}

\* SELECT id FROM dirs WHERE path = ?, first row (None when there is none).
SelectDirId(tbl, p) ==
    IF \E r \in tbl : r.path = p
    THEN Some((CHOOSE r \in tbl : r.path = p).id)
    ELSE None

\* INSERT OR IGNORE INTO files (path, path_id) VALUES (?, ?): files has no
\* constraint but its own id, so no insert is ever ignored.
InsertOrIgnoreFile(tbl, p, dirId) ==
    tbl \cup {[id |-> NextId(tbl), path |-> p, path_id |-> dirId]}

\* for path in state.files() { stmt.insert(..) }
RECURSIVE InsertFiles(_, _, _)
InsertFiles(tbl, fs, dirId) ==
    IF fs = <<>> THEN tbl
    ELSE InsertFiles(InsertOrIgnoreFile(tbl, Head(fs), dirId), Tail(fs), dirId)

\* -------------------------------------------------------------------- Init
NoEvent == [event |-> "none", ctx |-> MainId, sel |-> None, len |-> 0,
            ret |-> None]

NoFrame == [info |-> None, nav |-> None]
NoProbe == [a |-> Quit, b |-> Quit, c |-> Quit, left |-> None, right |-> None]

\* State::new and the registry's construction, at the first iteration of
\* the loop.  State.file_list_state starts at Some(0); the MainContext that
\* State::new builds holds ListState::default() (nothing selected), and the
\* context driver's MainContext may start either way.
InitLoop ==
    /\ prog \in {"main", "ctx"}
    /\ overflow_checks \in BOOLEAN
    /\ path = 1
    /\ files = <<>>
    /\ pc = "top"
    /\ state_sel = Some(0)
    /\ main_sel \in (IF prog = "ctx" THEN {None, Some(0)} ELSE {None})
    /\ file_path = None
    /\ tag_input = <<>>
    /\ active = MainId
    /\ ev = NoEvent
    /\ delivered = None
    /\ trail = [start |-> IF prog = "ctx" THEN main_sel ELSE state_sel,
                keys |-> <<>>]
    /\ dirs_tbl = {}
    /\ files_tbl = {}
    /\ runs = <<>>
    /\ frame = NoFrame

Init ==
    /\ InitLoop
    /\ probe = NoProbe
    /\ \E S \in SUBSET Names : disk = [d \in Dirs |-> IF d = 1 THEN S ELSE {}]

\* ------------------------------------------------------------- environment
\* An entry of directory d is created or removed by another process.
EnvChange(d) ==
    \E n \in Names :
        disk' = [disk EXCEPT ![d] = IF n \in @ THEN @ \ {n} ELSE @ \cup {n}]

DirChange ==
    /\ pc \in {"top", "draw", "input"}
    /\ EnvChange(path)
    /\ UNCHANGED <<loopVars, trail, dbVars, frame>>

\* ------------------------------------------------- the loop of src/main.rs
\* let files = state.files();
LoopTop ==
    /\ prog = "main" /\ pc = "top"
    /\ files' = Listing(path)
    /\ frame' = NoFrame
    /\ pc' = "draw"
    /\ UNCHANGED <<prog, overflow_checks, path, disk, state_sel, main_sel,
                   file_path, tag_input, active, ev, delivered, trail, dbVars>>

\* terminal.draw: the rows come from files, the info panel from a second
\* state.files() indexed by the selection.
LoopDrawPanics ==
    \/ \E i \in 1..Len(files) : ~Exists(files[i])
    \/ state_sel # None /\ state_sel[1] >= Len(Listing(path))

LoopDraw ==
    /\ prog = "main" /\ pc = "draw"
    /\ pc' = IF LoopDrawPanics THEN "panic" ELSE "input"
    /\ frame' = IF state_sel # None /\ \A i \in 1..Len(files) : Exists(files[i])
                THEN [frame EXCEPT !.info = Some(Listing(path))]
                ELSE frame
    /\ UNCHANGED <<prog, overflow_checks, path, disk, files, state_sel, main_sel,
                   file_path, tag_input, active, ev, delivered, trail, dbVars>>

\* What the match on the command does to the selection: [panic, quit, sel].
\* The length is that of a third state.files().
LoopCommand(cmd, s, len, oc) ==
    CASE cmd = "Quit" -> [panic |-> FALSE, quit |-> TRUE, sel |-> s]
      [] cmd = "CursorUp" ->
           LET r == CursorUp(s, len, oc)
           IN [panic |-> r.panic, quit |-> FALSE, sel |-> r.sel]
      [] cmd = "CursorDown" ->
           LET r == CursorDown(s, len, oc)
           IN [panic |-> r.panic, quit |-> FALSE, sel |-> r.sel]
      [] cmd = "None" -> [panic |-> FALSE, quit |-> FALSE, sel |-> s]
      [] cmd = "Tag" -> [panic |-> FALSE, quit |-> FALSE, sel |-> s]

\* read() with a resize taken for the quit key.
ReadCommand_resizeQuits(e) ==
    IF e \in Keys THEN KeyCommand(e) ELSE IF e = "Resize" THEN "Quit" ELSE "None"

\* The command read() yields: a key goes through State::handle_key, a mouse
\* or resize event is Command::None.
ReadCommand(e) == IF e \in Keys THEN KeyCommand(e) ELSE "None"

\* read() and the match on the command, for event e.
LoopInputCore(e) ==
    /\ prog = "main" /\ pc = "input"
    /\ LET cmd == ReadCommand(e)
           r == LoopCommand(cmd, state_sel, Len(Listing(path)), overflow_checks)
       IN /\ state_sel' = r.sel
          /\ pc' = IF r.panic THEN "panic" ELSE IF r.quit THEN "quit" ELSE "top"
          /\ ev' = [event |-> e, ctx |-> MainId, sel |-> state_sel,
                    len |-> Len(Listing(path)), ret |-> None]
          /\ frame' = IF cmd \in {"CursorUp", "CursorDown"} /\ state_sel # None
                      THEN [frame EXCEPT !.nav = Some(Listing(path))]
                      ELSE frame
    /\ UNCHANGED <<prog, overflow_checks, path, disk, files, main_sel,
                   file_path, tag_input, active, delivered, dbVars>>

LoopInput == \E e \in Keys \cup OtherEvents : LoopInputCore(e) /\ UNCHANGED trail

\* ------------------------------------------------------ the context driver
\* The snapshot handed to render and handle_key in this iteration.
DriverTop ==
    /\ prog = "ctx" /\ pc = "top"
    /\ files' = Listing(path)
    /\ frame' = NoFrame
    /\ pc' = "draw"
    /\ UNCHANGED <<prog, overflow_checks, path, disk, state_sel, main_sel,
                   file_path, tag_input, active, ev, delivered, trail, dbVars>>

\* get_active().render(frame, snapshot)
DriverRenderPanics ==
    CASE active = MainId -> MainRenderPanics(main_sel, files)
      [] active = TaggingId -> TagRenderPanics(file_path)
      [] OTHER -> TRUE

DriverRender ==
    /\ prog = "ctx" /\ pc = "draw"
    /\ pc' = IF DriverRenderPanics THEN "panic" ELSE "input"
    /\ frame' = IF /\ active = MainId /\ main_sel # None
                   /\ \A i \in 1..Len(files) : Exists(files[i])
                THEN [frame EXCEPT !.info = Some(files)]
                ELSE frame
    /\ UNCHANGED <<prog, overflow_checks, path, disk, files, state_sel, main_sel,
                   file_path, tag_input, active, ev, delivered, trail, dbVars>>

\* What the active context's handle_key does with event e: [panic, sel, ret].
\* Events that are no key press reach no context.
Dispatch(e) ==
    IF e \notin Keys THEN [panic |-> FALSE, sel |-> main_sel, ret |-> None]
    ELSE CASE active = MainId ->
                MainHandleKey(e, main_sel, files, overflow_checks)
           [] active = TaggingId ->
                [panic |-> FALSE, sel |-> main_sel, ret |-> TagHandleKey(e)]
           [] OTHER -> [panic |-> TRUE, sel |-> main_sel, ret |-> None]

\* One event: the active context handles it, and the driver applies the
\* primitives of the signal returned, in order, before the next render.
DriverInputCore(e) ==
    /\ prog = "ctx" /\ pc = "input"
    /\ LET h == Dispatch(e)
           st == ApplyAll([active |-> active, main_sel |-> h.sel,
                           file_path |-> file_path, delivered |-> delivered,
                           quit |-> FALSE, fatal |-> FALSE, log |-> <<>>],
                          Primitives(h.ret))
       IN IF h.panic
          THEN /\ pc' = "panic"
               /\ ev' = [event |-> e, ctx |-> active, sel |-> main_sel,
                         len |-> Len(files), ret |-> None]
               /\ UNCHANGED <<main_sel, file_path, active, delivered>>
          ELSE /\ pc' = IF st.fatal THEN "panic"
                        ELSE IF st.quit THEN "quit" ELSE "top"
               /\ ev' = [event |-> e, ctx |-> active, sel |-> main_sel,
                         len |-> Len(files), ret |-> h.ret]
               /\ main_sel' = st.main_sel
               /\ file_path' = st.file_path
               /\ active' = st.active
               /\ delivered' = st.delivered
    /\ frame' = IF /\ e \in Keys /\ active = MainId /\ main_sel # None
                   /\ KeyCommand(e) \in {"CursorUp", "CursorDown", "Tag"}
                THEN [frame EXCEPT !.nav = Some(files)]
                ELSE frame
    /\ UNCHANGED <<prog, overflow_checks, path, disk, files, state_sel,
                   tag_input, dbVars>>

DriverInput == \E e \in Keys \cup OtherEvents : DriverInputCore(e) /\ UNCHANGED trail

Next ==
    \/ DirChange
    \/ LoopTop
    \/ LoopDraw
    \/ LoopInput
    \/ DriverTop
    \/ DriverRender
    \/ DriverInput

Spec == Init /\ [][Next]_vars

\* ------------------------------------------- the cursor on a fixed listing
\* The selection the running loop moves.
CurSel == IF prog = "ctx" THEN main_sel ELSE state_sel

\* The trail after event e: a cursor or tag command handled by the list
\* screen is appended; any other event, or a full trail, starts a new trail
\* at the selection `after`.
Track(e, byList, after) ==
    LET cmd == IF e \in Keys /\ byList THEN KeyCommand(e) ELSE "None"
    IN IF cmd \in {"CursorUp", "CursorDown", "Tag"} /\ Len(trail.keys) < MaxTrail
       THEN [trail EXCEPT !.keys = Append(@, cmd)]
       ELSE [start |-> after, keys |-> <<>>]

LoopInputTracked ==
    \E e \in Keys \cup OtherEvents :
        LoopInputCore(e) /\ trail' = Track(e, TRUE, state_sel')

DriverInputTracked ==
    \E e \in Keys \cup OtherEvents :
        DriverInputCore(e) /\ trail' = Track(e, active = MainId, main_sel')

InitCursor ==
    /\ InitLoop
    /\ probe = NoProbe
    /\ \E S \in SUBSET Names : disk = [d \in Dirs |-> IF d = 1 THEN S ELSE {}]

NextCursor ==
    \/ LoopTop
    \/ LoopDraw
    \/ LoopInputTracked
    \/ DriverTop
    \/ DriverRender
    \/ DriverInputTracked

\* The loops over a directory that no other process changes.
SpecCursor == InitCursor /\ [][NextCursor]_vars

\* ---------------------------------------------------------------- start-up
\* main, from State::new to the loop, in directory d: the directory's row,
\* its id, one files row per entry of the listing.
Launch(d) ==
    /\ Len(runs) < MaxRuns
    /\ path' = d
    /\ LET dt == InsertOrIgnoreDir(dirs_tbl, d)
           id == SelectDirId(dt, d)
       IN /\ dirs_tbl' = dt
          /\ files_tbl' = IF id = None THEN files_tbl
                          ELSE InsertFiles(files_tbl, Listing(d), id[1])
    /\ runs' = Append(runs, <<d, Listing(d)>>)
    /\ pc' = "top"
    /\ state_sel' = Some(0)
    /\ UNCHANGED <<prog, overflow_checks, disk, files, main_sel, file_path,
                   tag_input, active, ev, delivered, trail, frame, probe>>

Start == \E d \in Dirs : Launch(d)

AnyDirChange ==
    /\ \E d \in Dirs : EnvChange(d)
    /\ UNCHANGED <<loopVars, trail, dbVars, frame>>

InitStartup ==
    /\ prog = "main"
    /\ overflow_checks \in BOOLEAN
    /\ path = 1
    /\ disk \in [Dirs -> SUBSET Names]
    /\ files = <<>>
    /\ pc = "startup"
    /\ state_sel = None
    /\ main_sel = None
    /\ file_path = None
    /\ tag_input = <<>>
    /\ active = MainId
    /\ ev = NoEvent
    /\ delivered = None
    /\ trail = [start |-> None, keys |-> <<>>]
    /\ dirs_tbl = {}
    /\ files_tbl = {}
    /\ runs = <<>>
    /\ frame = NoFrame
    /\ probe = NoProbe

NextStartup ==
    \/ Start
    \/ AnyDirChange

\* The process started up to MaxRuns times against one tidy.db.
SpecStartup == InitStartup /\ [][NextStartup]_vars

\* ------------------------------------------------- signals fed to the driver
\* The signals tried: every primitive over the registered identities and
\* the directory's paths, and the composites of a Change and a Message.
ProbePrimitives ==
    {Quit} \cup {Change(id) : id \in Registered}
           \cup {Message(TaggingId, MsgFile(CanonPath(1, n))) : n \in Names}

ProbeSignals ==
    ProbePrimitives
    \cup {And(Change(id), Message(TaggingId, MsgFile(CanonPath(1, n)))) :
             id \in Registered, n \in Names}

\* The driver's step 4 on signal sig, from the current contexts.
Applied(sig) ==
    ApplyAll([active |-> active, main_sel |-> main_sel, file_path |-> file_path,
              delivered |-> delivered, quit |-> FALSE, fatal |-> FALSE,
              log |-> <<>>],
             Primitives(Some(sig)))

\* (a and b) and c, applied.
ApplyLeft ==
    /\ probe.left = None
    /\ probe' = [probe EXCEPT !.left = Some(Applied(And(And(probe.a, probe.b), probe.c)))]
    /\ UNCHANGED <<loopVars, disk, trail, dirs_tbl, files_tbl, runs, frame>>

\* a and (b and c), applied.
ApplyRight ==
    /\ probe.right = None
    /\ probe' = [probe EXCEPT !.right = Some(Applied(And(probe.a, And(probe.b, probe.c))))]
    /\ UNCHANGED <<loopVars, disk, trail, dirs_tbl, files_tbl, runs, frame>>

InitSignal ==
    /\ InitLoop
    /\ prog = "ctx"
    /\ disk = [d \in Dirs |-> IF d = 1 THEN Names ELSE {}]
    /\ \E a, b, c \in ProbeSignals :
          probe = [a |-> a, b |-> b, c |-> c, left |-> None, right |-> None]

NextSignal ==
    \/ ApplyLeft
    \/ ApplyRight

\* The driver handed the two groupings of three signals.
SpecSignal == InitSignal /\ [][NextSignal]_vars

\* ------------------------------------------------- render on either screen
\* One iteration's render, from every pairing of an active context with the
\* fields its render reads: a selection unset or inside the directory, a
\* file bound or not.
InitRender ==
    /\ prog \in {"main", "ctx"}
    /\ overflow_checks \in BOOLEAN
    /\ path = 1
    /\ files = <<>>
    /\ pc = "top"
    /\ \E S \in SUBSET Names : disk = [d \in Dirs |-> IF d = 1 THEN S ELSE {}]
    /\ state_sel \in {None} \cup {Some(i) : i \in 0..(MaxFiles - 1)}
    /\ main_sel \in {None} \cup {Some(i) : i \in 0..(MaxFiles - 1)}
    /\ file_path \in {None} \cup {Some(CanonPath(1, n)) : n \in Names}
    /\ tag_input = <<>>
    /\ active \in (IF prog = "ctx" THEN Registered ELSE {MainId})
    /\ ev = NoEvent
    /\ delivered = file_path
    /\ trail = [start |-> None, keys |-> <<>>]
    /\ dirs_tbl = {}
    /\ files_tbl = {}
    /\ runs = <<>>
    /\ frame = NoFrame
    /\ probe = NoProbe

NextRender ==
    \/ DirChange
    \/ LoopTop
    \/ LoopDraw
    \/ DriverTop
    \/ DriverRender

SpecRender == InitRender /\ [][NextRender]_vars

\* ================================================================== claims
\* The last event was a tag request handled by MainContext with index i
\* selected and i inside the listing it was given.
TagRequested ==
    /\ prog = "ctx"
    /\ ev.event = "t" /\ ev.ctx = MainId
    /\ ev.sel # None /\ ev.len >= 1 /\ ev.sel[1] < ev.len

\* pc between an input event and the next `let files = ...`: files is still
\* the listing the handler was given.
AfterInput == ev.event # "none" /\ pc \in {"top", "quit", "panic"}

\* The last event was a tag request handled by MainContext with some index
\* selected, over a non-empty listing.
TagOnNonEmpty ==
    /\ prog = "ctx"
    /\ ev.event = "t" /\ ev.ctx = MainId
    /\ ev.sel # None /\ ev.len >= 1

C2_EmptyListNoOp ==
    (/\ AfterInput
     /\ ev.ctx = MainId
     /\ ev.event \in Keys /\ KeyCommand(ev.event) \in {"CursorUp", "CursorDown", "Tag"}
     /\ ev.len = 0)
    => (pc = "top" /\ CurSel = None /\ ev.ret = None)

\* C3: a tag request handled by MainContext with Some(i) selected, i < N,
\* returns a signal whose primitives are exactly one Change(TaggingContext)
\* and one Message(TaggingContext, File(files[i])), no Quit, and leaves the
\* selection as it was.
C3_TagSignalShape ==
    (TagRequested /\ AfterInput) =>
        LET ps == Primitives(ev.ret)
            want == Message(TaggingId, MsgFile(files[ev.sel[1] + 1]))
        IN /\ pc = "top"
           /\ Len(ps) = 2
           /\ Cardinality({k \in 1..Len(ps) : ps[k] = Change(TaggingId)}) = 1
           /\ Cardinality({k \in 1..Len(ps) : ps[k] = want}) = 1
           /\ \A k \in 1..Len(ps) : ps[k] # Quit
           /\ main_sel = ev.sel

\* C3 witness: t at index 1, which holds entry 3; the composite names it.
C3_Witness ==
    /\ TagRequested /\ pc = "top"
    /\ ev.sel = Some(1)
    /\ ev.ret = Some(And(Change(TaggingId),
                         Message(TaggingId, MsgFile(CanonPath(1, 3)))))
    /\ main_sel = Some(1)

\* C4 (as claimed): q handled by MainContext or by TaggingContext returns
\* Quit and only Quit.
C4_QuitFromEitherContext ==
    (prog = "ctx" /\ ev.event = "q") => Primitives(ev.ret) = <<Quit>>

\* C4 (amended): q handled by MainContext returns Quit and only Quit, and the
\* loop ends; q handled by TaggingContext returns Change(MainContext) and only
\* that.  In the loop of main.rs, q ends the loop.
C4_QuitFromMainOnly ==
    ev.event = "q" =>
        IF prog = "main" THEN pc = "quit"
        ELSE IF ev.ctx = MainId
             THEN Primitives(ev.ret) = <<Quit>> /\ pc = "quit"
             ELSE Primitives(ev.ret) = <<Change(MainId)>> /\ pc # "quit"

\* C4 witness: q pressed on the list screen with a file tagged before.
C4_Witness ==
    /\ prog = "ctx" /\ ev.event = "q" /\ ev.ctx = MainId
    /\ ev.ret = Some(Quit) /\ pc = "quit"
    /\ file_path # None

\* C5: while TaggingContext is active, q returns Change(MainContext); the step
\* that handles it leaves MainContext active, the loop running and file_path
\* as it was.
C5_ReturnToList ==
    [][(/\ prog = "ctx" /\ pc = "input" /\ pc' # "input"
        /\ active = TaggingId /\ ev'.event = "q")
       => (/\ ev'.ret = Some(Change(MainId))
           /\ active' = MainId
           /\ pc' = "top"
           /\ file_path' = file_path
           /\ tag_input' = tag_input)]_vars

\* C5 witness: back on the list screen after q on the tag screen, the file
\* still bound.
C5_Witness ==
    /\ prog = "ctx" /\ ev.event = "q" /\ ev.ctx = TaggingId
    /\ active = MainId /\ pc = "top"
    /\ file_path = Some(CanonPath(1, 2))

\* The listing length of SpecCursor, where no other process changes the
\* directory.
N == Cardinality(disk[path])

\* The trail is m cursor-downs (1 <= m) from a selected index inside the
\* listing.
RECURSIVE Repeat(_, _)
Repeat(x, m) == IF m = 0 THEN <<>> ELSE <<x>> \o Repeat(x, m - 1)

\* C6: for N >= 1 and a start index i < N, m cursor-downs in a row leave
\* the selection at (i + m) mod N: each one steps to (i + 1) mod N, and N of
\* them return to i.  Neither loop fails on the way.
C6_CursorDownCycle ==
    (N >= 1 /\ trail.start # None /\ trail.start[1] < N) =>
        \A m \in 1..MaxTrail :
            trail.keys = Repeat("CursorDown", m) =>
                /\ pc # "panic"
                /\ CurSel = Some((trail.start[1] + m) % N)
                /\ m = N => CurSel = trail.start

\* C6 witness: three files, start index 1, three cursor-downs, back at 1.
C6_Witness ==
    /\ prog = "ctx" /\ N = 3
    /\ trail.start = Some(1)
    /\ trail.keys = <<"CursorDown", "CursorDown", "CursorDown">>
    /\ main_sel = Some(1)

\* C7: for N >= 1 and an index i < N, cursor-up then cursor-down, and
\* cursor-down then cursor-up, leave the selection at i.
C7_UpDownIdentity ==
    (/\ N >= 1 /\ trail.start # None /\ trail.start[1] < N
     /\ trail.keys \in {<<"CursorUp", "CursorDown">>, <<"CursorDown", "CursorUp">>})
    => (pc # "panic" /\ CurSel = trail.start)

\* C7 witness: the loop of main.rs, three files, up from index 0 (wraps to 2)
\* and down again (wraps to 0).
C7_Witness ==
    /\ prog = "main" /\ N = 3
    /\ trail.start = Some(0)
    /\ trail.keys = <<"CursorUp", "CursorDown">>
    /\ state_sel = Some(0)

\* The start-ups that ran against directory d.
RunsOf(d) == {k \in 1..Len(runs) : runs[k][1] = d}

\* C8 (as claimed): after any number of start-ups against a directory with
\* the same listing, dirs holds one row for the directory and files one row
\* per (entry path, directory).
C8_StartupIdempotent ==
    \A d \in Dirs :
        (/\ RunsOf(d) # {}
         /\ \A j, k \in RunsOf(d) : runs[j][2] = runs[k][2])
        => /\ Cardinality({r \in dirs_tbl : r.path = d}) = 1
           /\ LET id == SelectDirId(dirs_tbl, d)[1]
                  fs == runs[CHOOSE k \in RunsOf(d) : TRUE][2]
              IN \A i \in 1..Len(fs) :
                    Cardinality({r \in files_tbl :
                                    r.path = fs[i] /\ r.path_id = id}) = 1

\* C9: a step that changes the active identity leaves MainContext's selection
\* as it was; a step taken while TaggingContext is active leaves it as it
\* was; a switch back to MainContext leaves TaggingContext's fields as they
\* were.
C9_SwitchKeepsState ==
    [][/\ (active' # active => main_sel' = main_sel)
       /\ (active = TaggingId => main_sel' = main_sel)
       /\ (active = TaggingId /\ active' = MainId =>
              file_path' = file_path /\ tag_input' = tag_input)]_vars

\* C9 witness: back on the list screen from the tag screen with the cursor
\* still on index 2.
C9_Witness ==
    /\ prog = "ctx" /\ ev.event = "q" /\ ev.ctx = TaggingId
    /\ active = MainId
    /\ main_sel = Some(2) /\ ev.sel = Some(2)

\* The step delivers Msg::File(p) to TaggingContext.
Delivers(p) ==
    /\ pc = "input" /\ pc' # "input"
    /\ \E k \in 1..Len(Primitives(ev'.ret)) :
          Primitives(ev'.ret)[k] = Message(TaggingId, MsgFile(p))

\* C10: file_path is unset until the first delivery and is always the path
\* of the last Msg::File delivered; a step changes it only by delivering
\* Msg::File(p), and then to Some(p).
C10_BoundOnlyByMessage ==
    /\ [](file_path = delivered)
    /\ [][file_path' # file_path =>
            (file_path' # None /\ Delivers(file_path'[1]))]_vars

\* C10 witness: a key handled by TaggingContext, a render and a changed
\* directory later, file_path still holds the delivered path, which is no
\* longer in the listing.
C10_Witness ==
    /\ prog = "ctx" /\ active = TaggingId /\ pc = "input"
    /\ ev.event = "x" /\ ev.ctx = TaggingId
    /\ file_path = Some(CanonPath(1, 3)) /\ delivered = file_path
    /\ Len(files) = 0

\* C11 (as claimed): within one iteration, the listing the info panel
\* indexes and the listing whose length drives the cursor are the listing
\* the rows were drawn from, whatever happens to the directory meanwhile.
C11_FrameSnapshotStable ==
    /\ frame.info # None => frame.info = Some(files)
    /\ frame.nav # None => frame.nav = Some(files)

\* The primitives of ps up to and including the first Quit.
RECURSIVE UpToQuit(_)
UpToQuit(ps) ==
    IF ps = <<>> THEN <<>>
    ELSE IF Head(ps) = Quit THEN <<Quit>>
    ELSE <<Head(ps)>> \o UpToQuit(Tail(ps))

\* C12: (a and b) and c decomposes to the same list as a and (b and c),
\* namely the primitives of a, then of b, then of c; the driver applies
\* them in that order (up to a Quit, which ends the loop), and so ends in
\* the same state for both groupings.
C12_CompositionAssociative ==
    LET flat == Decompose(probe.a) \o Decompose(probe.b) \o Decompose(probe.c)
    IN /\ Decompose(And(And(probe.a, probe.b), probe.c)) = flat
       /\ Decompose(And(probe.a, And(probe.b, probe.c))) = flat
       /\ probe.left # None => probe.left[1].log = UpToQuit(flat)
       /\ probe.right # None => probe.right[1].log = UpToQuit(flat)
       /\ (probe.left # None /\ probe.right # None) => probe.left = probe.right

\* C12 witness: a switch to the tag screen, a composite that switches back
\* and delivers entry 1, then a delivery of entry 2, applied in both
\* groupings: MainContext active, entry 2 bound, four primitives in order.
C12_Witness ==
    /\ probe.a = Change(TaggingId)
    /\ probe.b = And(Change(MainId), Message(TaggingId, MsgFile(CanonPath(1, 1))))
    /\ probe.c = Message(TaggingId, MsgFile(CanonPath(1, 2)))
    /\ probe.left # None /\ probe.right # None
    /\ probe.left[1].active = MainId
    /\ probe.left[1].file_path = Some(CanonPath(1, 2))
    /\ Len(probe.right[1].log) = 4

\* The event just handled applied a Quit: the q arm of main.rs, or a Quit
\* among the primitives of the signal a context returned.
QuitApplied ==
    IF prog = "main" THEN ev.event \in Keys /\ KeyCommand(ev.event) = "Quit"
    ELSE ev.ret # None /\ \E i \in 1..Len(Decompose(ev.ret[1])) :
                             Decompose(ev.ret[1])[i] = Quit

\* C13 (as claimed): handling an input event ends the loop only when a Quit
\* is applied (any other event is followed by the next iteration), and once
\* the loop has ended nothing is rendered or handled.
C13_EndsOnlyByQuit ==
    [][/\ (pc = "input" /\ pc' \notin {"input", "top"}) => (pc' = "quit" /\ QuitApplied')
       /\ pc = "quit" => UNCHANGED <<pc, ev, frame, loopVars>>]_vars

\* C14 (as claimed): a tag request handled by MainContext with nothing
\* selected, whatever the length of the listing, returns no signal, leaves
\* the selection unset and MainContext active, and the loop goes on.
C14_TagWithoutSelectionDropped ==
    (/\ AfterInput
     /\ prog = "ctx"
     /\ ev.event = "t" /\ ev.ctx = MainId /\ ev.sel = None)
    => (pc = "top" /\ ev.ret = None /\ main_sel = None /\ active = MainId)

\* The keys the context that handled the last event has no binding for.
UnboundKeys ==
    IF ev.ctx = MainId THEN Keys \ {"q", "Up", "k", "Down", "j", "t"}
    ELSE Keys \ {"q"}

\* C15: a key the active context does not bind (MainContext: x;
\* TaggingContext: anything but q) returns no signal, leaves the selection,
\* the bound file, the tag entries and the active identity as they were,
\* and the loop goes on.
C15_UnboundKeyNoOp ==
    [][(pc = "input" /\ pc' # "input" /\ ev'.event \in UnboundKeys')
       => /\ ev'.ret = None
          /\ pc' = "top"
          /\ UNCHANGED <<main_sel, state_sel, file_path, tag_input, active>>]_vars

\* C15 witness: t was pressed on the tag screen with a file bound and the
\* list screen's selection set; the next iteration starts.
C15_Witness ==
    /\ ev.event = "t" /\ ev.ctx = TaggingId /\ pc = "top"
    /\ active = TaggingId
    /\ file_path # None /\ main_sel = Some(1)

\* C16: a resize or mouse event is handled by no context and produces no
\* signal; both selections, the bound file, the tag entries, the messages
\* delivered and the active identity stay as they were, and the loop goes
\* to its next render.
C16_NonKeyEventNoOp ==
    [][(pc = "input" /\ pc' # "input" /\ ev'.event \in OtherEvents)
       => /\ ev'.ret = None
          /\ pc' = "top"
          /\ UNCHANGED <<main_sel, state_sel, file_path, tag_input, active,
                         delivered>>]_vars

\* C16 witness: the loop of main.rs read a resize with the second row
\* selected and is about to list the directory again.
C16_Witness ==
    /\ prog = "main"
    /\ ev.event = "Resize" /\ pc = "top"
    /\ state_sel = Some(1)

\* C17: a render step writes neither selection, nor the bound file, nor the
\* tag entries, nor the active identity, whether it succeeds or fails; and
\* a render of TaggingContext with no file bound succeeds.
C17_RenderKeepsState ==
    [][(pc = "draw" /\ pc' # "draw")
       => /\ UNCHANGED <<main_sel, state_sel, file_path, tag_input, active,
                         delivered>>
          /\ (prog = "ctx" /\ active = TaggingId /\ file_path = None)
                => pc' = "input"]_vars

\* C17 witness: TaggingContext was rendered with no file bound, over a
\* listing of two entries, and the loop waits for input.
C17_Witness ==
    /\ prog = "ctx" /\ active = TaggingId /\ file_path = None
    /\ Len(files) = 2
    /\ pc = "input"

\* The listing a render indexes by the selection: the second state.files()
\* in main.rs, the snapshot in MainContext::render.
RenderListing == IF prog = "main" THEN Listing(path) ELSE files

\* C18 (as claimed): at every render of the list screen and at every tag
\* request, a selection Some(i) has i inside the listing that step indexes,
\* from the initial Some(0), after any cursor movement, and with the
\* directory empty or shrinking between frames.
C18_SelectionInRange ==
    [][/\ (pc = "draw" /\ pc' # "draw" /\ active = MainId /\ CurSel # None)
             => CurSel[1] < Len(RenderListing)
       /\ (pc = "input" /\ pc' # "input" /\ prog = "ctx" /\ active = MainId
                        /\ ev'.event = "t" /\ main_sel # None)
             => main_sel[1] < Len(files)]_vars

\* C19: every Change and every Message a handler returned names MainContext
\* or TaggingContext, and the active identity is one of the two, so neither
\* get_active nor deliver meets an identity it does not know.
C19_TargetsRegistered ==
    /\ active \in Registered
    /\ \A k \in 1..Len(Primitives(ev.ret)) :
          Primitives(ev.ret)[k][1] \in {"Change", "Message"}
             => Primitives(ev.ret)[k][2] \in Registered

\* C19 witness: both handlers have emitted; the last signal was the tag
\* screen's switch back, after a composite bound entry 1, and get_active
\* has rendered MainContext again.
C19_Witness ==
    /\ prog = "ctx"
    /\ ev.ctx = TaggingId /\ ev.ret = Some(Change(MainId))
    /\ delivered = Some(CanonPath(1, 1))
    /\ active = MainId /\ pc = "input"

====
